---------------------------- MODULE Spec2Model ----------------------------
(***************************************************************************)
(* State-machine model of src/index.tsx: the themed tree scene             *)
(* (BackgroundController, FallingSnow, StylizedTree, RibbonWithText, App).  *)
(*                                                                         *)
(* Numbers.  JavaScript doubles are modelled in fixed point: a length, a   *)
(* time in seconds, a unit-interval factor or an angle in radians x is the  *)
(* integer 1000*x (SCALE), a colour channel c is the integer 10000*c       *)
(* (CSCALE).  Products and quotients truncate toward zero.  The two        *)
(* non-numbers a JavaScript read can produce, undefined and NaN, are the   *)
(* values Undefined and NaN below.                                         *)
(***************************************************************************)
EXTENDS Integers, Sequences, FiniteSets, TLC

\* ------------------------------------------------------------ bounds ----
\* Math.random() generator states the page may be loaded with: 0..MaxSeed.
MaxSeed == 1
\* FallingSnow frame callbacks followed from the initial state.
MaxSnowFrames == 70
\* Theme changes followed in one run.
MaxThemeChanges == 1
\* BackgroundController frame callbacks followed after a theme change, when
\* the frame deltas vary.
MaxBgFrames == 4
\* Length of the longest ribbon text tried (the layout target is 140).
MaxTextLen == 150
\* Ticks of the render loop followed when user events interleave with them.
MaxAppFrames == 1

\* ------------------------------------------------------- fixed point ----
SCALE == 1000
CSCALE == 10000
Undefined == -2000000001
NaN == -2000000002

IsNum(v) == v # Undefined /\ v # NaN

Abs(a) == IF a < 0 THEN -a ELSE a
Min(a, b) == IF a < b THEN a ELSE b
Max(a, b) == IF a > b THEN a ELSE b

\* a / b of two integers, truncated toward zero (b > 0).
Quot(a, b) == IF a >= 0 THEN a \div b ELSE -((-a) \div b)

\* JavaScript arithmetic on numbers that may be undefined or NaN.
JsSub(a, b) == IF IsNum(a) /\ IsNum(b) THEN a - b ELSE NaN
JsAdd(a, b) == IF IsNum(a) /\ IsNum(b) THEN a + b ELSE NaN
\* a * (n/d) for a rational constant n/d.
JsScale(a, n, d) == IF IsNum(a) THEN Quot(a * n, d) ELSE NaN
\* Math.min / Math.max return NaN when either argument is NaN.
MathMin(a, b) == IF IsNum(a) /\ IsNum(b) THEN Min(a, b) ELSE NaN
MathMax(a, b) == IF IsNum(a) /\ IsNum(b) THEN Max(a, b) ELSE NaN
\* a < b is false when either side is NaN.
JsLess(a, b) == IsNum(a) /\ IsNum(b) /\ a < b

\* arr[j] of a JavaScript array (0-based): undefined past the end.
At(arr, j) == IF (j + 1) \in DOMAIN arr THEN arr[j + 1] ELSE Undefined

\* Math.sqrt on [0, 1): the largest k/1000 with (k/1000)^2 <= u/1000.
Sqrt(u) == CHOOSE k \in 0..SCALE : k * k <= u * SCALE /\ (k + 1) * (k + 1) > u * SCALE

\* ------------------------------------------------------ trigonometry ----
\* 1000*sin at multiples of 15 degrees over a quarter turn, truncated.
SinQuarter == <<0, 258, 500, 707, 866, 965, 1000>>
TrigSteps == 24
TwoPi == 6283

\* sin at k * 15 degrees, any integer k.
SinIdx(k) ==
    LET m == k % TrigSteps
    IN  IF m <= 6 THEN SinQuarter[m + 1]
        ELSE IF m <= 12 THEN SinQuarter[12 - m + 1]
        ELSE IF m <= 18 THEN -SinQuarter[m - 12 + 1]
        ELSE -SinQuarter[24 - m + 1]
CosIdx(k) == SinIdx(k + 6)

\* The table index of an angle in milliradians (nearest step below).
AngleIdx(a) == ((a % TwoPi) * TrigSteps) \div TwoPi

\* Math.sin / Math.cos of an angle in milliradians.
MathSin(a) == SinIdx(AngleIdx(a))
MathCos(a) == CosIdx(AngleIdx(a))

\* Math.atan2(a, b) in milliradians: the table direction closest to (b, a).
MathAtan2(a, b) ==
    LET score(k) == CosIdx(k) * b + SinIdx(k) * a
        best == CHOOSE k \in 0..(TrigSteps - 1) :
                    \A j \in 0..(TrigSteps - 1) : score(k) >= score(j)
    IN  Quot(best * TwoPi, TrigSteps)

\* ------------------------------------------------------- Math.random ----
\* Math.random() in [0, 1) as 0..999: the k-th draw of the i-th iteration of
\* a loop, for a generator loaded in state seed.  Draws of one iteration
\* use different multipliers, so that they vary independently over i.
RandMult == <<333, 7, 71, 139, 211, 307, 409, 503, 601>>
Seeds == 0..MaxSeed
\* The generator states a theme change finds the generator in.
NoiseSeeds == {0, 1}
MathRandom(seed, i, k) == ((i + 1 + seed * 37) * RandMult[k] + 619 * k + 271 * seed) % SCALE


\* ------------------------------------------------------------ THEMES ----
\* Each colour is the six hexadecimal digits of its "#rrggbb" string.
THEMES ==
    [ deepBlue |-> [leavesHigh |-> <<3, 11, 8, 2, 15, 6>>,  \* #3b82f6
                    leavesLow  |-> <<1, 14, 3, 10, 8, 10>>,  \* #1e3a8a
                    ribbon     |-> <<15, 12, 13, 3, 4, 13>>,  \* #fcd34d
                    text       |-> <<4, 5, 1, 10, 0, 3>>,  \* #451a03
                    bg         |-> <<0, 11, 1, 1, 2, 0>>,  \* #0b1120
                    star       |-> <<15, 11, 11, 15, 2, 4>>],  \* #fbbf24
       lightBlue |-> [leavesHigh |-> <<14, 0, 15, 2, 15, 14>>,  \* #e0f2fe
                     leavesLow  |-> <<0, 14, 10, 5, 14, 9>>,  \* #0ea5e9
                     ribbon     |-> <<1, 14, 3, 10, 8, 10>>,  \* #1e3a8a
                     text       |-> <<15, 15, 15, 15, 15, 15>>,  \* #ffffff
                     bg         |-> <<0, 15, 1, 7, 2, 10>>,  \* #0f172a
                     star       |-> <<11, 10, 14, 6, 15, 13>>],  \* #bae6fd
       pink |-> [leavesHigh |-> <<15, 11, 12, 15, 14, 8>>,  \* #fbcfe8
                leavesLow  |-> <<13, 11, 2, 7, 7, 7>>,  \* #db2777
                ribbon     |-> <<15, 15, 15, 1, 15, 2>>,  \* #fff1f2
                text       |-> <<8, 3, 1, 8, 4, 3>>,  \* #831843
                bg         |-> <<4, 10, 0, 4, 4, 14>>,  \* #4a044e
                star       |-> <<15, 12, 14, 7, 15, 3>>],  \* #fce7f3
       red |-> [leavesHigh |-> <<14, 15, 4, 4, 4, 4>>,  \* #ef4444
               leavesLow  |-> <<9, 9, 1, 11, 1, 11>>,  \* #991b1b
               ribbon     |-> <<15, 13, 14, 0, 4, 7>>,  \* #fde047
               text       |-> <<4, 5, 0, 10, 0, 10>>,  \* #450a0a
               bg         |-> <<2, 13, 0, 10, 0, 10>>,  \* #2d0a0a
               star       |-> <<15, 10, 12, 12, 1, 5>>],  \* #facc15
       white |-> [leavesHigh |-> <<15, 15, 15, 15, 15, 15>>,  \* #ffffff
                 leavesLow  |-> <<9, 4, 10, 3, 11, 8>>,  \* #94a3b8
                 ribbon     |-> <<13, 12, 2, 6, 2, 6>>,  \* #dc2626
                 text       |-> <<15, 15, 15, 15, 15, 15>>,  \* #ffffff
                 bg         |-> <<1, 1, 1, 8, 2, 7>>,  \* #111827
                 star       |-> <<15, 1, 15, 5, 15, 9>>],  \* #f1f5f9
       green |-> [leavesHigh |-> <<4, 10, 13, 14, 8, 0>>,  \* #4ade80
                 leavesLow  |-> <<1, 5, 8, 0, 3, 13>>,  \* #15803d
                 ribbon     |-> <<14, 15, 4, 4, 4, 4>>,  \* #ef4444
                 text       |-> <<15, 15, 15, 15, 15, 15>>,  \* #ffffff
                 bg         |-> <<0, 2, 2, 12, 2, 2>>,  \* #022c22
                 star       |-> <<15, 11, 11, 15, 2, 4>>],  \* #fbbf24
       purple |-> [leavesHigh |-> <<13, 8, 11, 4, 15, 14>>,  \* #d8b4fe
                  leavesLow  |-> <<7, 14, 2, 2, 12, 14>>,  \* #7e22ce
                  ribbon     |-> <<15, 10, 14, 8, 15, 15>>,  \* #fae8ff
                  text       |-> <<3, 11, 0, 7, 6, 4>>,  \* #3b0764
                  bg         |-> <<1, 14, 1, 11, 4, 11>>,  \* #1e1b4b
                  star       |-> <<14, 9, 13, 5, 15, 15>>],  \* #e9d5ff
       gold |-> [leavesHigh |-> <<15, 13, 14, 0, 4, 7>>,  \* #fde047
                leavesLow  |-> <<13, 9, 7, 7, 0, 6>>,  \* #d97706
                ribbon     |-> <<11, 9, 1, 12, 1, 12>>,  \* #b91c1c
                text       |-> <<15, 12, 13, 3, 4, 13>>,  \* #fcd34d
                bg         |-> <<1, 12, 1, 9, 1, 7>>,  \* #1c1917
                star       |-> <<15, 15, 15, 11, 14, 11>>] ]  \* #fffbeb

ThemeKeys == DOMAIN THEMES

\* new THREE.Color("#rrggbb"): each channel is its byte / 255.
HexByte(hex, c) == hex[2 * c - 1] * 16 + hex[2 * c]
Channel(hex, c) == Quot(HexByte(hex, c) * CSCALE, 255)
Color(hex) == <<Channel(hex, 1), Channel(hex, 2), Channel(hex, 3)>>

\* Color.lerp / Color.lerpColors: c1 + (c2 - c1) * alpha, alpha in 1/1000.
LerpChannel(a, b, alpha) == IF IsNum(alpha) THEN a + Quot((b - a) * alpha, SCALE) ELSE NaN
LerpColors(c1, c2, alpha) ==
    <<LerpChannel(c1[1], c2[1], alpha), LerpChannel(c1[2], c2[2], alpha),
      LerpChannel(c1[3], c2[3], alpha)>>

\* ------------------------------------------------------- FallingSnow ----
count == 800
SnowFloor == -5000
SnowCeiling == 15000

\* One particle of the particles array (0-based index i).
NewParticle(seed, i) ==
    [ position     |-> << (MathRandom(seed, i, 1) - 500) * 25,
                          MathRandom(seed, i, 2) * 20,
                          (MathRandom(seed, i, 3) - 500) * 25 >>,
      speed        |-> 30 + Quot(MathRandom(seed, i, 4) * 50, SCALE),
      wobbleSpeed  |-> 500 + MathRandom(seed, i, 5),
      wobbleOffset |-> Quot(MathRandom(seed, i, 6) * TwoPi, SCALE),
      scale        |-> 40 + Quot(MathRandom(seed, i, 7) * 60, SCALE) ]

NewParticles(seed) == [i \in 1..count |-> NewParticle(seed, i - 1)]

\* The wobble of particle p at clock time (milliseconds): sin(...) * 0.05.
Wobble(p, time) ==
    Quot(MathSin(Quot(time * p.wobbleSpeed, SCALE) + p.wobbleOffset) * 50, SCALE)

\* Mutant of FallY: the recycling test left out.
FallYNoRecycle(p) == p.position[2] - p.speed

\* p.position.y after the fall and the recycling test.
FallY(p) ==
    LET y == p.position[2] - p.speed
    IN  IF y < SnowFloor THEN SnowCeiling ELSE y

\* Mutant of StoredParticle: dummy.position aliases p.position instead of
\* copying it, so the wobble lands in the stored x.
StoredParticleAliased(p, time) ==
    [p EXCEPT !.position[2] = FallY(p), !.position[1] = p.position[1] + Wobble(p, time)]

\* The particle as the callback leaves it in the particles array.
StoredParticle(p, time) == [p EXCEPT !.position[2] = FallY(p)]

\* The instance matrix the callback writes for it: dummy gets a copy of the
\* stored position, then the wobble on x, the scale and the spin.
SnowMatrix(p, time) ==
    LET q == StoredParticle(p, time)
    IN  [ x     |-> q.position[1] + Wobble(q, time),
          y     |-> q.position[2],
          z     |-> q.position[3],
          scale |-> q.scale,
          rotX  |-> Quot(time * 500, SCALE),
          rotY  |-> Quot(time * 300, SCALE) ]

\* The zero-filled instance matrix of a new InstancedMesh.
ZeroSnowMatrix == [x |-> 0, y |-> 0, z |-> 0, scale |-> 0, rotX |-> 0, rotY |-> 0]

\* ------------------------------------------------------ StylizedTree ----
LAYER_COUNT == 9
BRUSH_COUNT == 1100

LayerProgress(l) == Quot(l * SCALE, LAYER_COUNT - 1)
YBase(l) == -3500 + l * 1300
RadiusBase(l) == Quot(3800 * (SCALE - Quot(LayerProgress(l) * 950, SCALE)), SCALE)
\* Mutant of PerLayerCount: Math.ceil in place of Math.floor.
PerLayerCeil == (BRUSH_COUNT + LAYER_COUNT - 1) \div LAYER_COUNT

\* count of the layer loop: Math.floor(BRUSH_COUNT / LAYER_COUNT).
PerLayerCount == BRUSH_COUNT \div LAYER_COUNT
\* Iterations the two loops run before index reaches BRUSH_COUNT.
Generated == Min(LAYER_COUNT * PerLayerCount, BRUSH_COUNT)
LayerOf(n) == n \div PerLayerCount

\* dummy.lookAt(0, y + 5, 0) from (x, y, z), as Euler angles: the heading
\* toward the axis and the tilt toward the point 5 above (a coarse stand-in
\* for the matrix-to-Euler conversion, which no property below reads).
LookAt(x, z, r) == << -MathAtan2(5000, r), MathAtan2(-x, -z), 0 >>

\* The n-th brush (0-based): what one iteration of the inner loop pushes.
Brush(seed, n) ==
    LET l == LayerOf(n)
        radiusBase == RadiusBase(l)
        r == Quot(Sqrt(MathRandom(seed, n, 1)) * radiusBase, SCALE)
        angle == Quot(MathRandom(seed, n, 2) * TwoPi, SCALE)
        h == MathRandom(seed, n, 3)
        x == Quot(MathCos(angle) * r, SCALE)
        z == Quot(MathSin(angle) * r, SCALE)
        y == YBase(l) + Quot(h * (SCALE - Quot(Quot(r * SCALE, radiusBase) * 300, SCALE)), SCALE)
        look == LookAt(x, z, r)
        s == 300 + Quot(MathRandom(seed, n, 7) * 500, SCALE)
    IN  [ pos |-> <<x, y, z>>,
          rot |-> << look[1] + (MathRandom(seed, n, 4) - 500),
                     look[2] + (MathRandom(seed, n, 6) - 500) * 2,
                     look[3] + (MathRandom(seed, n, 5) - 500) >>,
          sca |-> <<s, s, s>> ]

Brushes(seed) == [n \in 1..Generated |-> Brush(seed, n - 1)]

\* The flat array pos / rot / sca built by the pushes (three numbers each).
Flat(brushes, field) ==
    [j \in 1..(3 * Len(brushes)) |-> brushes[((j - 1) \div 3) + 1][field][((j - 1) % 3) + 1]]

\* A triple read from a flat array at slot i: arr[i*3], arr[i*3+1], arr[i*3+2].
Triple(arr, i) == << At(arr, i * 3), At(arr, i * 3 + 1), At(arr, i * 3 + 2) >>

\* dummy.updateMatrix(): the composed matrix holds NaN once a component of
\* position, rotation or scale is not a number.
ComposeMatrix(p, r, s) ==
    IF \A c \in 1..3 : IsNum(p[c]) /\ IsNum(r[c]) /\ IsNum(s[c])
    THEN [position |-> p, rotation |-> r, scale |-> s]
    ELSE [position |-> <<NaN, NaN, NaN>>, rotation |-> <<NaN, NaN, NaN>>,
          scale |-> <<NaN, NaN, NaN>>]

\* 2. Initialize Geometry: one matrix per slot 0..BRUSH_COUNT-1.
InitializeGeometry(pos, rot, sca) ==
    [i \in 1..BRUSH_COUNT |->
        ComposeMatrix(Triple(pos, i - 1), Triple(rot, i - 1), Triple(sca, i - 1))]

minY == -4000
maxY == 5500

\* Mutant of Noise: an amplitude of 0.5 in place of 0.05.
NoiseWide(draw) == Quot((draw - 500) * 500, SCALE)

\* The colour-noise term (Math.random() - 0.5) * 0.05, from a draw in 0..999.
Noise(draw) == Quot((draw - 500) * 50, SCALE)

\* Normalize Height Factor, then the noise and the second clamp.
HeightFactor(y, noise) ==
    LET t0 == JsScale(JsSub(y, minY), SCALE, maxY - minY)
        t1 == MathMax(0, MathMin(SCALE, t0))
    IN  MathMax(0, MathMin(SCALE, JsAdd(t1, noise)))

\* localT of the low segment and of the high segment.
LocalLow(t) == JsScale(t, SCALE, 650)
LocalHigh(t) == JsScale(JsSub(t, 650), SCALE, 350)
\* Mutant of FrostFactor: the blend toward snowColor not damped.
FrostFull(localT) == localT

\* The damping of the blend toward snowColor.
FrostFactor(localT) == JsScale(localT, 700, SCALE)

SnowWhite == <<15, 15, 15, 15, 15, 15>>

\* colorHigh, colorLow and snowColor, made once before the loop.
Palette(themeName) ==
    [ colorHigh |-> Color(THEMES[themeName].leavesHigh),
      colorLow |-> Color(THEMES[themeName].leavesLow),
      snowColor |-> Color(SnowWhite) ]

\* tempColor for height factor t.
GradientColor(palette, t) ==
    IF JsLess(t, 650)
    THEN LerpColors(palette.colorLow, palette.colorHigh, LocalLow(t))
    ELSE LerpColors(palette.colorHigh, palette.snowColor, FrostFactor(LocalHigh(t)))

\* The colour slot i gets: y read from positions[i*3+1], one noise draw.
BrushColor(pos, palette, seed, i) ==
    GradientColor(palette, HeightFactor(At(pos, i * 3 + 1), Noise(MathRandom(seed, i, 8))))

\* The palette of each theme of the table.
Palettes == [key \in ThemeKeys |-> Palette(key)]

\* 3. Update Colors: setXYZ for every slot 0..BRUSH_COUNT-1.
UpdateColors(pos, themeName, seed) ==
    [i \in 1..BRUSH_COUNT |-> BrushColor(pos, Palettes[themeName], seed, i - 1)]

\* The tree's idle sway: rotation.y = sin(time * 0.2) * 0.03.
TreeSway(time) == Quot(MathSin(Quot(time * 200, SCALE)) * 30, SCALE)

\* ---------------------------------------------- BackgroundController ----
\* Mutant of BlendFactor: delta not clamped.
BlendUnclamped(delta) == delta * 2

\* d * 2 with d = Math.min(delta, 0.1), delta in milliseconds.
BlendFactor(delta) == Min(delta, 100) * 2

\* Mutant of BlendToward: the colour is cut to the target at once.
BlendSnap(current, target, delta) == target

\* currentColor.current.lerp(targetColor, d * 2).
BlendToward(current, target, delta) == LerpColors(current, target, BlendFactor(delta))

\* ---------------------------------------------------- RibbonWithText ----
turns2 == 7     \* 2 * turns, turns = 3.5
hStart == -3200
hEnd == 5800
segments == 200

\* The helix at parameter t (in 1/1000): the formula of the control points.
HelixPoint(t) ==
    LET angle == Quot(t * TwoPi * turns2, 2 * SCALE)
        y == hStart + Quot(t * (hEnd - hStart), SCALE)
        r == Quot(3700 * (SCALE - t), SCALE) + 300
    IN  << Quot(MathCos(angle) * r, SCALE), y, Quot(MathSin(angle) * r, SCALE) >>

\* The points handed to CatmullRomCurve3: i = 0..segments, t = i / segments.
CurvePoints == [i \in 1..(segments + 1) |-> HelixPoint(Quot((i - 1) * SCALE, segments))]

\* curve.getPointAt(u): the spline through the control points sampled at u;
\* the spline follows the helix, so the helix at u stands for it.
GetPointAt(u) == HelixPoint(u)

Separator == <<" ", " ", " ", "*", " ", " ", " ">>     \* three spaces, the star U+2605, three spaces
totalCharsNeeded == 140
startT == 20
endT == 980

\* String.prototype.repeat and substring(0, n).
Repeat(str, n) == [j \in 1..(Len(str) * n) |-> str[((j - 1) % Len(str)) + 1]]
Substring(str, n) == SubSeq(str, 1, Min(n, Len(str)))
\* Mutant of CeilDiv: Math.floor in place of Math.ceil.
FloorDiv(a, b) == a \div b
CeilDiv(a, b) == (a + b - 1) \div b

\* chars: the repeated, truncated base string, split into characters.
Chars(text) ==
    LET baseString == text \o Separator
    IN  Substring(Repeat(baseString, CeilDiv(totalCharsNeeded, Len(baseString))),
                  totalCharsNeeded)

\* Mutant of GlyphT: step = 1 / n, the margins forgotten.
GlyphTWholeCurve(i, n) == endT - Quot(i * SCALE, n)

\* t of glyph i (0-based) among n glyphs: endT - i * step, step = range / n.
GlyphT(i, n) == endT - Quot(i * (endT - startT), n)
SafeT(t) == Min(999, Max(1, t))

Glyph(char, i, n) ==
    LET point == GetPointAt(SafeT(GlyphT(i, n)))
    IN  [ char |-> char,
          position |-> point,
          rotation |-> <<0, MathAtan2(point[1], point[3]), 0>> ]

\* The textLayout memo.
TextLayout(text) ==
    IF Len(text) = 0 THEN << >>
    ELSE LET chars == Chars(text)
             n == Len(chars)
         IN  [i \in 1..n |-> Glyph(chars[i], i - 1, n)]

\* The ribbon's idle bob: position.y = sin(time * 0.5) * 0.05.
RibbonBob(time) == Quot(MathSin(Quot(time * 500, SCALE)) * 50, SCALE)

\* --------------------------------------------------------------- App ----
MerryChristmas ==
    <<"M", "E", "R", "R", "Y", " ", "C", "H", "R", "I", "S", "T", "M", "A", "S">>
\* maxLength of the message textarea.
maxLength == 35

\* Inputs of the model.  A text of length n over a three-letter alphabet.
TextOfLen(n) == [j \in 1..n |-> <<"H", "I", "!">>[((j - 1) % 3) + 1]]
TextLens == {0, 1, 2, 3, 8, maxLength, 133, 134, 139, 140, 141, MaxTextLen}
Texts == {MerryChristmas} \cup {TextOfLen(n) : n \in TextLens}
\* Clock readings (state.clock.elapsedTime) and frame deltas, in milliseconds.
Times == {0, 1000, 2618, 5236, 7854}
Deltas == {0, 16, 100, 5000}

\* The frame delta of a display refreshing steadily at 60 Hz, the frames
\* counted toward the settling of the background, and the colour distance
\* (1/255) taken as settled.
SteadyDelta == 16
SettleFrames == 150
Tolerance == 39

VARIABLES
    state,            \* App: colorTheme, blessingText, mode, isRecording
    particles,        \* FallingSnow: the particles array
    snowMatrix,       \* FallingSnow: the instance matrices of the mesh
    frameCount,       \* history: FallingSnow frame callbacks run so far
    positions,        \* StylizedTree: the flat arrays of the layout
    rotations,
    scales,
    treeMatrix,       \* StylizedTree: the instance matrices of the mesh
    instanceColor,    \* StylizedTree: the instanceColor attribute
    treeRotY,         \* StylizedTree: meshRef.current.rotation.y
    targetColor,      \* BackgroundController: the targetColor memo
    currentColor,     \* BackgroundController: currentColor.current
    sceneBackground,  \* scene.background (<< >> until the first frame)
    fogColor,         \* scene.fog.color
    themeChanges,     \* history: theme changes so far
    settle,           \* history: background frames since the last theme change
    curve,            \* RibbonWithText: the control points of the curve
    textLayout,       \* RibbonWithText: the textLayout memo
    ribbonY           \* RibbonWithText: groupRef.current.position.y

appVars == <<state>>
snowVars == <<particles, snowMatrix, frameCount>>
layoutVars == <<positions, rotations, scales, treeMatrix>>
treeVars == <<positions, rotations, scales, treeMatrix, instanceColor, treeRotY>>
bgVars == <<targetColor, currentColor, sceneBackground, fogColor, settle>>
ribbonVars == <<curve, textLayout, ribbonY>>
vars == <<state, particles, snowMatrix, frameCount, positions, rotations, scales,
          treeMatrix, instanceColor, treeRotY, targetColor, currentColor,
          sceneBackground, fogColor, themeChanges, settle, curve, textLayout, ribbonY>>

\* The scene once mounted: the memos computed, the mount effects run
\* (Initialize Geometry, Update Colors, the fog), no frame rendered yet.
Init ==
    \E seed \in Seeds :
        /\ state = [colorTheme |-> "deepBlue", blessingText |-> MerryChristmas,
                    mode |-> "edit", isRecording |-> FALSE]
        /\ particles = NewParticles(seed)
        /\ snowMatrix = [i \in 1..count |-> ZeroSnowMatrix]
        /\ frameCount = 0
        /\ positions = Flat(Brushes(seed), "pos")
        /\ rotations = Flat(Brushes(seed), "rot")
        /\ scales = Flat(Brushes(seed), "sca")
        /\ treeMatrix = InitializeGeometry(positions, rotations, scales)
        /\ instanceColor = UpdateColors(positions, state.colorTheme, seed)
        /\ treeRotY = 0
        /\ targetColor = Color(THEMES[state.colorTheme].bg)
        /\ currentColor = Color(THEMES[state.colorTheme].bg)
        /\ sceneBackground = << >>
        /\ fogColor = Color(THEMES[state.colorTheme].bg)
        /\ themeChanges = 0
        /\ settle = 0
        /\ curve = CurvePoints
        /\ textLayout = TextLayout(state.blessingText)
        /\ ribbonY = 0

\* FallingSnow's useFrame callback (mesh.current is set once mounted).
SnowFrame(time) ==
    /\ frameCount < MaxSnowFrames
    /\ particles' = [i \in 1..Len(particles) |-> StoredParticle(particles[i], time)]
    /\ snowMatrix' = [i \in 1..Len(particles) |-> SnowMatrix(particles[i], time)]
    /\ frameCount' = frameCount + 1
    /\ UNCHANGED <<appVars, treeVars, bgVars, themeChanges, ribbonVars>>

\* BackgroundController's useFrame callback.
BgFrame(delta) ==
    /\ currentColor' = BlendToward(currentColor, targetColor, delta)
    /\ sceneBackground' = currentColor'
    /\ fogColor' = currentColor'
    /\ settle' = Min(settle + 1, SettleFrames)
    /\ UNCHANGED <<appVars, snowVars, treeVars, targetColor, themeChanges, ribbonVars>>

\* StylizedTree's useFrame callback.
TreeFrame(time) ==
    /\ treeRotY' = TreeSway(time)
    /\ UNCHANGED <<appVars, snowVars, layoutVars, instanceColor, bgVars, themeChanges,
                   ribbonVars>>

\* RibbonWithText's useFrame callback.
RibbonFrame(time) ==
    /\ ribbonY' = RibbonBob(time)
    /\ UNCHANGED <<appVars, snowVars, treeVars, bgVars, themeChanges, curve, textLayout>>

\* A click on a theme swatch (edit mode), the re-render and its effects: a
\* new theme key recomputes targetColor and re-runs Update Colors.
SetTheme(key, seed) ==
    /\ state.mode = "edit"
    /\ key # state.colorTheme
    /\ themeChanges < MaxThemeChanges
    /\ state' = [state EXCEPT !.colorTheme = key]
    /\ targetColor' = Color(THEMES[key].bg)
    /\ instanceColor' = UpdateColors(positions, key, seed)
    /\ themeChanges' = themeChanges + 1
    /\ settle' = 0
    /\ UNCHANGED <<snowVars, layoutVars, treeRotY, currentColor, sceneBackground,
                   fogColor, ribbonVars>>

\* An edit of the message (edit mode) and the re-render: a new textLayout.
SetText(text) ==
    /\ state.mode = "edit"
    /\ text # state.blessingText
    /\ state' = [state EXCEPT !.blessingText = text]
    /\ textLayout' = TextLayout(text)
    /\ UNCHANGED <<snowVars, treeVars, bgVars, themeChanges, curve, ribbonY>>

\* "Confirm & Generate" and the edit button: SceneContent's props are the
\* same, so the memoized scene does not re-render.
\* Mutant of SetMode: the toggle re-initializes the canvas, which mounts the
\* scene again and draws the snow particles afresh.
SetModeRemount(mode) ==
    /\ mode # state.mode
    /\ state' = [state EXCEPT !.mode = mode]
    /\ \E seed \in Seeds : particles' = NewParticles(seed)
    /\ UNCHANGED <<snowMatrix, frameCount, treeVars, bgVars, themeChanges, ribbonVars>>

SetMode(mode) ==
    /\ mode # state.mode
    /\ state' = [state EXCEPT !.mode = mode]
    /\ UNCHANGED <<snowVars, treeVars, bgVars, themeChanges, ribbonVars>>

\* "Download Video" (view mode) and the end of the recording.
SetRecording(flag) ==
    /\ flag # state.isRecording
    /\ flag => state.mode = "view"
    /\ state' = [state EXCEPT !.isRecording = flag]
    /\ UNCHANGED <<snowVars, treeVars, bgVars, themeChanges, ribbonVars>>

\* One tick of the render loop: the four useFrame callbacks run one after
\* the other with the same clock reading and delta; they share no state.
Frame(time, delta) ==
    /\ frameCount < MaxAppFrames
    /\ particles' = [i \in 1..Len(particles) |-> StoredParticle(particles[i], time)]
    /\ snowMatrix' = [i \in 1..Len(particles) |-> SnowMatrix(particles[i], time)]
    /\ frameCount' = frameCount + 1
    /\ currentColor' = BlendToward(currentColor, targetColor, delta)
    /\ sceneBackground' = currentColor'
    /\ fogColor' = currentColor'
    /\ settle' = Min(settle + 1, SettleFrames)
    /\ treeRotY' = TreeSway(time)
    /\ ribbonY' = RibbonBob(time)
    /\ UNCHANGED <<appVars, layoutVars, instanceColor, targetColor, themeChanges,
                   curve, textLayout>>

\* The inputs followed when every kind of event interleaves.
AppThemes == {"green", "white"}
AppTexts == {MerryChristmas, TextOfLen(0), TextOfLen(3)}
AppTimes == {2618}
AppDeltas == {SteadyDelta}
Modes == {"edit", "view"}

Next ==
    \/ \E time \in AppTimes, delta \in AppDeltas : Frame(time, delta)
    \/ \E key \in AppThemes : SetTheme(key, 1)
    \/ \E text \in AppTexts : SetText(text)
    \/ \E mode \in Modes : SetMode(mode)
    \/ \E flag \in BOOLEAN : SetRecording(flag)
Spec == Init /\ [][Next]_vars

SnowNext == \E time \in Times : SnowFrame(time)
SpecSnow == Init /\ [][SnowNext]_vars

TreeNext ==
    \/ \E key \in ThemeKeys, seed \in NoiseSeeds : SetTheme(key, seed)
    \/ \E time \in Times : TreeFrame(time)
SpecTree == Init /\ [][TreeNext]_vars

\* One theme change, and a few frames of any delta before and after it.
BgNext ==
    \/ \E key \in ThemeKeys : themeChanges = 0 /\ SetTheme(key, 0)
    \/ \E delta \in Deltas : settle < MaxBgFrames /\ BgFrame(delta)
SpecBg == Init /\ [][BgNext]_vars

\* One theme change, then frames at the steady rate for as long as the
\* background differs from its target.
SettleNext ==
    \/ \E key \in ThemeKeys : themeChanges = 0 /\ SetTheme(key, 0)
    \/ currentColor # targetColor /\ BgFrame(SteadyDelta)
\* Frames keep being rendered: the render loop calls the callback again as
\* long as the canvas is mounted.
SpecSettle == Init /\ [][SettleNext]_vars /\ WF_vars(BgFrame(SteadyDelta))

RibbonNext ==
    \/ \E text \in Texts : SetText(text)
    \/ \E time \in Times : RibbonFrame(time)
SpecRibbon == Init /\ [][RibbonNext]_vars

\* ----------------------------------------------------------- claims ----

\* C1 as stated: in every state reachable by snow frames there are 800
\* particles and every stored height position.y is within [-5, 15].
SnowHeightsWithin15 ==
    /\ Len(particles) = 800
    /\ \A i \in 1..Len(particles) :
          particles[i].position[2] >= -5000 /\ particles[i].position[2] <= 15000

\* C1 amended: in every state reachable by snow frames there are 800
\* particles (and 800 instance matrices) and every stored height position.y
\* is within [-5, 20): particles start anywhere below 20 and only a recycled
\* particle restarts at 15.
SnowCountAndHeights ==
    /\ Len(particles) = 800
    /\ Len(snowMatrix) = 800
    /\ \A i \in 1..Len(particles) :
          particles[i].position[2] >= -5000 /\ particles[i].position[2] < 20000

\* A state after frames in which one particle has just been recycled to 15
\* while another, not yet recycled, is still above 15.
SnowRecycledWitness ==
    /\ frameCount >= 64
    /\ \E seed \in Seeds, i \in 1..Len(particles) :
          /\ particles[1].position[1] = NewParticle(seed, 0).position[1]
          /\ particles[i].position[2] = 15000
          /\ NewParticle(seed, i - 1).position[2] < 15000
    /\ \E i \in 1..Len(particles) : particles[i].position[2] > 15000

\* C10: a snow frame changes, of the stored particles, only position.y (x,
\* z, speed, wobbleSpeed, wobbleOffset and scale stay, none is added or
\* removed), and the x it renders is within 0.05 of the stored x, with the y
\* and z rendered as stored.
SnowFrameStep ==
    /\ Len(particles') = Len(particles)
    /\ \A i \in 1..Len(particles) :
          /\ particles'[i] = [particles[i] EXCEPT !.position[2] = particles'[i].position[2]]
          /\ Abs(snowMatrix'[i].x - particles'[i].position[1]) <= 50
          /\ snowMatrix'[i].y = particles'[i].position[2]
          /\ snowMatrix'[i].z = particles'[i].position[3]
SnowFrameOnlyMovesY == [][SnowFrameStep]_vars

\* A state after several frames where a particle is rendered at the full
\* wobble amplitude away from its stored x, and another one on the other side.
SnowWobbleWitness ==
    /\ frameCount >= 2
    /\ \E i \in 1..Len(particles) : snowMatrix[i].x = particles[i].position[1] + 50
    /\ \E i \in 1..Len(particles) : snowMatrix[i].x < particles[i].position[1]

\* Slots of the instance buffers, the height a slot reads, and whether the
\* layout holds a record for it.
Slots == 0..(BRUSH_COUNT - 1)
SlotY(i) == At(positions, i * 3 + 1)
Backed(i) == \A c \in 0..2 :
    IsNum(At(positions, i * 3 + c)) /\ IsNum(At(rotations, i * 3 + c))
        /\ IsNum(At(scales, i * 3 + c))
InUnit(v) == IsNum(v) /\ 0 <= v /\ v <= SCALE
White == <<CSCALE, CSCALE, CSCALE>>

\* C2: the layout holds floor(1100/9)*9 records (three numbers each in
\* positions, rotations and scales), the record of layer l lies within
\* horizontal radius radiusBase(l) of the axis, yBase is strictly increasing
\* in l, and radiusBase decreases from the base radius 3.8 to 5% of it at the
\* top layer.
LayoutCountAndShape ==
    /\ Len(positions) = 3 * ((BRUSH_COUNT \div LAYER_COUNT) * LAYER_COUNT)
    /\ Len(rotations) = Len(positions)
    /\ Len(scales) = Len(positions)
    /\ \A n \in 0..((Len(positions) \div 3) - 1) :
          LET l == n \div (BRUSH_COUNT \div LAYER_COUNT)
              x == At(positions, n * 3)
              z == At(positions, n * 3 + 2)
          IN  l <= 8 /\ x * x + z * z <= RadiusBase(l) * RadiusBase(l)
    /\ \A l \in 0..7 : YBase(l) < YBase(l + 1) /\ RadiusBase(l) > RadiusBase(l + 1)
    /\ RadiusBase(0) = 3800
    /\ RadiusBase(8) * 100 = 3800 * 5

\* A layout of 1098 records (the remainder of 1100/9 dropped) with a record
\* of the top layer and one of the bottom layer in the outer tenth of their
\* layer's disk.
LayoutRimWitness ==
    /\ Len(positions) = 3 * 1098
    /\ \E n \in 0..121 :
          100 * (At(positions, n * 3) * At(positions, n * 3)
                 + At(positions, n * 3 + 2) * At(positions, n * 3 + 2))
              >= 81 * RadiusBase(0) * RadiusBase(0)
    /\ \E n \in 976..1097 :
          100 * (At(positions, n * 3) * At(positions, n * 3)
                 + At(positions, n * 3 + 2) * At(positions, n * 3 + 2))
              >= 81 * RadiusBase(8) * RadiusBase(8)

\* C3: the layout holds one record for each of the 1100 slots, so that every
\* slot Initialize Geometry and Update Colors read is backed by a record and
\* no matrix or colour is computed from a missing one.
EverySlotBacked ==
    /\ Len(positions) = 3 * 1100
    /\ Len(rotations) = 3 * 1100
    /\ Len(scales) = 3 * 1100
    /\ \A i \in Slots :
          /\ Backed(i)
          /\ \A c \in 1..3 : IsNum(treeMatrix[i + 1].position[c])
          /\ \A c \in 1..3 : IsNum(instanceColor[i + 1][c])

\* C7: for every slot, every noise value and the active theme, the height
\* factor t is within [0, 1], the interpolation factor of its segment is
\* within [0, 1], and every channel in the colour buffer is within [0, 1].
ColourFactorsInUnitRange ==
    \A i \in Slots :
        /\ \A draw \in {0, 250, 500, 750, 999} :
              LET t == HeightFactor(SlotY(i), Noise(draw))
              IN  /\ InUnit(t)
                  /\ IF JsLess(t, 650) THEN InUnit(LocalLow(t))
                     ELSE InUnit(FrostFactor(LocalHigh(t)))
        /\ \A c \in 1..3 :
              IsNum(instanceColor[i + 1][c]) /\ instanceColor[i + 1][c] >= 0
                  /\ instanceColor[i + 1][c] <= CSCALE

\* What holds of C7 on the code: the same, for the slots the layout backs.
BackedColourFactorsInUnitRange ==
    \A i \in Slots : Backed(i) =>
        /\ \A draw \in {0, 250, 500, 750, 999} :
              LET t == HeightFactor(SlotY(i), Noise(draw))
              IN  /\ InUnit(t)
                  /\ IF JsLess(t, 650) THEN InUnit(LocalLow(t))
                     ELSE InUnit(FrostFactor(LocalHigh(t)))
        /\ \A c \in 1..3 :
              IsNum(instanceColor[i + 1][c]) /\ instanceColor[i + 1][c] >= 0
                  /\ instanceColor[i + 1][c] <= CSCALE

\* The channels of slot i as a second run of Update Colors, drawing its noise
\* from generator state seed, assigns them under the active theme.
SecondRun(seed, i) == BrushColor(positions, Palettes[state.colorTheme], seed, i)
ChannelsWithin(a, b, d) ==
    \A c \in 1..3 : IsNum(a[c]) /\ IsNum(b[c]) /\ Abs(a[c] - b[c]) <= d

\* C8 as stated: a second run of Update Colors under the same theme gives
\* every slot a colour within 0.025 per channel of the one it holds.
RecolourWithinNoise ==
    \A i \in Slots, seed \in Seeds :
        ChannelsWithin(instanceColor[i + 1], SecondRun(seed, i), 250)

\* C8 amended: a second run of Update Colors under the same theme gives every
\* slot the layout backs a colour within 0.1 per channel of the one it holds
\* (the height factors of two runs differ by up to 0.05 and the gradient has
\* slope at most 2); the slots without a record hold NaN after either run.
RecolourWithinTenth ==
    \A i \in Slots :
        IF Backed(i)
        THEN \A seed \in Seeds :
                ChannelsWithin(instanceColor[i + 1], SecondRun(seed, i), 1000)
        ELSE \A seed \in Seeds :
                instanceColor[i + 1] = <<NaN, NaN, NaN>> /\ SecondRun(seed, i) = <<NaN, NaN, NaN>>

\* A state after a theme change where a second run would move a channel of a
\* backed slot by more than 0.025.
RecolourWitness ==
    /\ themeChanges >= 1
    /\ \E i \in Slots, seed \in Seeds :
          /\ Backed(i)
          /\ ~ChannelsWithin(instanceColor[i + 1], SecondRun(seed, i), 250)

\* Slot i is on the upper segment (t >= 0.65) whatever noise is drawn.
SureTip(i) == IsNum(SlotY(i)) /\ HeightFactor(SlotY(i), -25) >= 650

\* C9 as stated: under every theme, no instance on the upper segment is
\* assigned pure white.
TipsNeverWhite ==
    \A i \in Slots : SureTip(i) => instanceColor[i + 1] # White

\* C9 amended: under every theme whose leavesHigh is not pure white (every
\* theme but "white") no instance is assigned pure white; under "white",
\* whose leavesHigh is #ffffff, every instance on the upper segment is
\* assigned exactly pure white.
TipsWhiteOnlyUnderWhite ==
    LET high == Color(THEMES[state.colorTheme].leavesHigh)
    IN  /\ (high = White) <=> (state.colorTheme = "white")
        /\ \A i \in Slots :
              /\ high # White => instanceColor[i + 1] # White
              /\ (high = White /\ SureTip(i)) => instanceColor[i + 1] = White

\* The theme "white" is active and the top brushes are pure white.
WhiteTipsWitness ==
    /\ state.colorTheme = "white"
    /\ \E i \in Slots : SureTip(i) /\ instanceColor[i + 1] = White

\* Channel c of v lies between channels c of a and b.
Between(v, a, b) ==
    \A c \in 1..3 : (a[c] <= v[c] /\ v[c] <= b[c]) \/ (b[c] <= v[c] /\ v[c] <= a[c])

\* C4: in every frame update, whatever the delta, the new current colour
\* lies channel by channel between the prior current colour and the target,
\* and the blend factor min(delta, 0.1) * 2 is within [0, 0.2].
BgFrameStep ==
    /\ Between(currentColor', currentColor, targetColor)
    /\ \A delta \in Deltas : BlendFactor(delta) >= 0 /\ BlendFactor(delta) * 10 <= 2 * SCALE
BgNeverOvershoots == [][BgFrameStep]_vars

\* After a theme change, one frame with a delta of five seconds has moved the
\* colour by exactly the clamped fifth of the way to the target.
BgLargeDeltaWitness ==
    /\ themeChanges = 1
    /\ settle = 1
    /\ currentColor # targetColor
    /\ currentColor = LerpColors(Color(THEMES.deepBlue.bg), targetColor, 200)
    /\ currentColor = BlendToward(Color(THEMES.deepBlue.bg), targetColor, 5000)
    /\ currentColor # Color(THEMES.deepBlue.bg)

\* The current colour is within Tolerance (1/255 of a channel) of the target.
Settled == \A c \in 1..3 : Abs(currentColor[c] - targetColor[c]) <= Tolerance

\* C5: after a theme change that is not followed by another, at the steady
\* frame rate the current colour is eventually within tolerance of the new
\* target for good, SettleFrames frames suffice, a settled colour stays
\* settled while the target stands, and neither the change itself nor the
\* first frame after it brings the colour to the target.
BgConverges ==
    /\ [](themeChanges = 1 => <>[]Settled)
    /\ [](settle >= SettleFrames => Settled)
    /\ [][(Settled /\ targetColor' = targetColor) => Settled']_vars
    /\ [][targetColor' # targetColor => (currentColor' = currentColor /\ ~Settled')]_vars
    /\ [][(settle = 0 /\ settle' = 1) => ~Settled']_vars

\* The theme was changed to green and the colour has settled on green's
\* background after more than one frame, without being equal to it.
BgSettledGreenWitness ==
    /\ state.colorTheme = "green"
    /\ targetColor = Color(THEMES.green.bg)
    /\ settle > 1
    /\ settle < SettleFrames
    /\ Settled

\* C6: for empty text the layout is empty; for non-empty text it has 140
\* glyphs and glyph i carries character (i mod len) of text + separator; for
\* "MERRY CHRISTMAS" it starts with the text, the separator, then "M".
RibbonLayoutRepeats ==
    LET text == state.blessingText
        base == text \o Separator
    IN  IF Len(text) = 0 THEN textLayout = << >>
        ELSE /\ Len(textLayout) = 140
             /\ \A i \in 0..139 : textLayout[i + 1].char = base[(i % Len(base)) + 1]
             /\ text = MerryChristmas =>
                   [i \in 1..23 |-> textLayout[i].char]
                       = MerryChristmas \o Separator \o <<"M">>

\* An edited text of eight characters, laid out as nine copies of text +
\* separator and the first five characters of a tenth.
RibbonRepeatWitness ==
    /\ Len(state.blessingText) = 8
    /\ Len(textLayout) = 140
    /\ textLayout[16].char = state.blessingText[1]
    /\ textLayout[136].char = state.blessingText[1]
    /\ textLayout[140].char = state.blessingText[5]

\* The scene state a step may leave alone, by component.
SnowSame == particles' = particles /\ snowMatrix' = snowMatrix
LayoutSame ==
    /\ positions' = positions
    /\ rotations' = rotations
    /\ scales' = scales
    /\ treeMatrix' = treeMatrix
BackgroundSame ==
    /\ currentColor' = currentColor
    /\ sceneBackground' = sceneBackground
    /\ fogColor' = fogColor
MotionSame == treeRotY' = treeRotY /\ ribbonY' = ribbonY
\* The particle set: as many particles, each the particle it was but for its
\* height.
ParticleSetSame ==
    /\ Len(particles') = Len(particles)
    /\ Len(snowMatrix') = Len(snowMatrix)
    /\ \A i \in 1..Len(particles) :
          particles'[i] = [particles[i] EXCEPT !.position[2] = particles'[i].position[2]]

\* C11: in every step of any interleaving of theme changes, text changes,
\* mode toggles and frames: the layout (positions, rotations, scales, instance
\* matrices), the buffer sizes, the curve and the particle set are as they
\* were; a theme change rewrites only the instance colours and the background
\* target; a text change rebuilds only the glyph list; a mode toggle changes
\* neither; and the colours and the glyph list change in no other step.
SceneStep ==
    /\ LayoutSame
    /\ Len(instanceColor') = Len(instanceColor)
    /\ Len(instanceColor') = BRUSH_COUNT
    /\ Len(treeMatrix') = BRUSH_COUNT
    /\ curve' = curve
    /\ ParticleSetSame
    /\ state'.colorTheme # state.colorTheme =>
          /\ targetColor' = Color(THEMES[state'.colorTheme].bg)
          /\ textLayout' = textLayout
          /\ SnowSame /\ BackgroundSame /\ MotionSame
    /\ state'.blessingText # state.blessingText =>
          /\ textLayout' = TextLayout(state'.blessingText)
          /\ instanceColor' = instanceColor
          /\ targetColor' = targetColor
          /\ SnowSame /\ BackgroundSame /\ MotionSame
    /\ state'.mode # state.mode =>
          /\ instanceColor' = instanceColor
          /\ textLayout' = textLayout
          /\ targetColor' = targetColor
          /\ SnowSame /\ BackgroundSame /\ MotionSame
    /\ instanceColor' # instanceColor => state'.colorTheme # state.colorTheme
    /\ textLayout' # textLayout => state'.blessingText # state.blessingText
    /\ targetColor' # targetColor => state'.colorTheme # state.colorTheme
MutationsRewriteInPlace == [][SceneStep]_vars

\* A state after a theme change, a text change, a mode toggle and a frame
\* that followed the theme change: the colours are those of the new theme,
\* the glyph list is that of the new text, and the background has left the
\* old colour without reaching the new one.
InterleavedWitness ==
    /\ themeChanges = 1
    /\ frameCount = 1
    /\ settle = 1
    /\ state.mode = "view"
    /\ state.colorTheme = "white"
    /\ state.blessingText = TextOfLen(3)
    /\ Len(textLayout) = 140
    /\ instanceColor = UpdateColors(positions, "white", 1)
    /\ currentColor # targetColor
    /\ currentColor # Color(THEMES.deepBlue.bg)
    /\ particles # NewParticles(0) /\ particles # NewParticles(1)

\* The curve parameter glyph i (0-based) was sampled at, read back from the
\* height of its point: the curve rises linearly from hStart to hEnd.
SampledAt(i) == ((textLayout[i + 1].position[2] - hStart) * SCALE) \div (hEnd - hStart)

\* C12: for every non-empty text, glyph i is placed at t_i = 0.98 - i * step
\* with step = 0.96 / 140; t_i is strictly decreasing in i and within
\* [0.02, 0.98], and the value handed to the curve sampler is within
\* [0.001, 0.999] (and is t_i itself, the clamp having nothing to do).
GlyphParameters ==
    Len(state.blessingText) > 0 =>
        /\ Len(textLayout) = 140
        /\ \A i \in 0..(Len(textLayout) - 1) :
              LET t == GlyphT(i, Len(textLayout))
              IN  /\ t = 980 - Quot(i * 960, 140)
                  /\ t >= 20 /\ t <= 980
                  /\ i > 0 => t < GlyphT(i - 1, Len(textLayout))
                  /\ SafeT(t) >= 1 /\ SafeT(t) <= 999
                  /\ SampledAt(i) = SafeT(t)
                  /\ SampledAt(i) = 980 - Quot(i * 960, 140)
                  /\ i > 0 => SampledAt(i) < SampledAt(i - 1)
                  /\ textLayout[i + 1].position = GetPointAt(SampledAt(i))

\* An edited text one character longer than the layout: the first glyph sits
\* at 0.98, the last at 0.98 - 139 * 0.96 / 140 = 0.027 (thousandths, cut),
\* inside the lower margin.
GlyphWalkWitness ==
    /\ Len(state.blessingText) = 141
    /\ Len(textLayout) = 140
    /\ SampledAt(0) = 980
    /\ SampledAt(1) = 974
    /\ SampledAt(139) = 27

=============================================================================
